---------------------------- MODULE Spec2Model ----------------------------
(***************************************************************************)
(* Model of python-dvg-dump: the FFTW based 2D convolution and             *)
(* autocorrelation engines (src/src/dvg_fftw_convolve2d.py and             *)
(* src/src/dvg_fftw_autocorrelate2d.py) with their numba kernels.          *)
(*                                                                         *)
(* Arithmetic is exact.  Input samples are small integers.  A complex      *)
(* number of a spectrum is an element of the ring Z[z], z a primitive L-th *)
(* root of unity, L the least common multiple of the two padded lengths:   *)
(* it is kept as its coefficient vector c, standing for                    *)
(* c[0] + c[1] z + ... + c[L-1] z^(L-1).  The transforms are the discrete  *)
(* Fourier transforms FFTW computes, evaluated term by term in that ring;  *)
(* float32 rounding is not modelled.                                       *)
(*                                                                         *)
(* Python's shape[0], shape[1] are shape[1], shape[2] here; array indices  *)
(* stay zero based: an array is a function on Idx(shape).                  *)
(***************************************************************************)
EXTENDS Integers, Sequences, FiniteSets, TLC

VARIABLES
    conv,    \* the FFTW_Convolver_Full2D instance: its attributes
    cargs,   \* the arguments its constructor was called with
    cf,      \* the convolve() call in progress: position and locals
    clast,   \* history: inputs and output values of the previous convolve()
    acor,    \* the FFTW_Autocorrelator_2D instance: its attributes
    aargs,   \* the arguments its constructor was called with
    af,      \* the autocorrelate() call in progress: position and locals
    alast,   \* history: input and outcome of the previous autocorrelate()
    sh,      \* a caller of fast_fftshift: its matrix and what the call gave
    mp,      \* a fast_multiply_p call: operands, output, the threads' progress
    ctor,    \* a constructor call: the class, the arguments, what the call gave
    par,     \* one Convolver and the convolve() calls of two threads on it
    curve,   \* a ThreadSafeCurve, the thread that feeds it, the thread that draws
    flog     \* a FileLogger, the thread that calls update(), the GUI thread

convVars == <<conv, cargs, cf, clast>>

acVars == <<acor, aargs, af, alast>>

kernVars == <<sh, mp, ctor, par, curve, flog>>

vars == <<convVars, acVars, kernVars>>

\* A part of the program a specification leaves out; a call frame that is
\* left out is at the position "off", where no step is enabled.
Off == "off"

ConvOff == conv = Off /\ cargs = Off /\ cf = [pc |-> Off] /\ clast = Off

AcOff == acor = Off /\ aargs = Off /\ af = [pc |-> Off] /\ alast = Off

KernOff == sh = Off /\ mp = Off /\ ctor = Off /\ par = Off /\ curve = Off /\ flog = Off

\* What the Convolver's methods leave alone, and the Autocorrelator's.
ConvFrame == UNCHANGED <<acVars, kernVars>>

AcFrame == UNCHANGED <<convVars, kernVars>>

\* What a call of fast_fftshift on its own leaves alone, and so on.
ShiftFrame == UNCHANGED <<convVars, acVars, mp, ctor, par, curve, flog>>

MulPFrame == UNCHANGED <<convVars, acVars, sh, ctor, par, curve, flog>>

CtorFrame == UNCHANGED <<convVars, acVars, sh, mp, par, curve, flog>>

ParFrame == UNCHANGED <<convVars, acVars, sh, mp, ctor, curve, flog>>

CurveFrame == UNCHANGED <<convVars, acVars, sh, mp, ctor, par, flog>>

LogFrame == UNCHANGED <<convVars, acVars, sh, mp, ctor, par, curve>>

(***************************************************************************)
(* Bounds of the model.                                                    *)
(***************************************************************************)
\* Input samples are drawn from 0 .. MaxVal.
MaxVal == 1
\* fast_fftshift is called on matrices of 1 .. MaxDim rows and columns.
MaxDim == 4
\* The threads numba runs a parallel loop on.
NumThreads == 2
\* The constructors are called with dimensions up to MaxLen (Autocorrelator)
\* and (MaxLen + 1) / 2 (Convolver, whose default s2 = s1 then asks for a
\* transform of length up to MaxLen).
MaxLen == 17
\* The capacity of the ring buffers of a ThreadSafeCurve.
RingCapacity == 2
\* The number of readings the acquisition thread pushes.
MaxReadings == 4
\* The value a transform that was planned with FFTW_DESTROY_INPUT, and that
\* does destroy its input, leaves in every cell of its input array; also the
\* content of a buffer obtained from empty_aligned() before its first write.
Scribble == 1

\* Python's None, where an array is expected, and where a view is expected.
NoArray == << >>

\* A numpy array as the caller holds it: a view of the array "base" of the
\* engine, or, with base "owndata", an array with data of its own.
NoView == [base |-> "None", slice |-> <<0, 0>>, data |-> NoArray]

NoCall == [valid |-> FALSE, in1 |-> NoArray, in2 |-> NoArray, out |-> NoArray,
           view |-> NoView]

(***************************************************************************)
(* Integer helpers.                                                        *)
(***************************************************************************)
RECURSIVE SumTo(_, _)
\* f[0] + ... + f[n-1]
SumTo(f, n) == IF n = 0 THEN 0 ELSE f[n - 1] + SumTo(f, n - 1)

RECURSIVE Gcd(_, _)
Gcd(a, b) == IF b = 0 THEN a ELSE Gcd(b, a % b)

Lcm(a, b) == (a * b) \div Gcd(a, b)

\* Euler's totient
Phi(n) == Cardinality({g \in 1 .. n : Gcd(g, n) = 1})

SmallestFactor(n) == CHOOSE p \in 2 .. n : n % p = 0 /\ \A q \in 2 .. (p - 1) : n % q # 0

RECURSIVE Mobius(_)
Mobius(n) ==
    IF n = 1 THEN 1
    ELSE LET p == SmallestFactor(n)
         IN  IF (n \div p) % p = 0 THEN 0 ELSE 0 - Mobius(n \div p)

(***************************************************************************)
(* Arrays.                                                                 *)
(***************************************************************************)
Idx(shape) == (0 .. (shape[1] - 1)) \X (0 .. (shape[2] - 1))

Size(shape) == shape[1] * shape[2]

\* numpy's a.shape of a non-empty 2D array
ShapeOf(a) ==
    << Cardinality({p[1] : p \in DOMAIN a}), Cardinality({p[2] : p \in DOMAIN a}) >>

Filled(shape, v) == [p \in Idx(shape) |-> v]

(***************************************************************************)
(* Complex numbers: the ring Z[z], z = exp(2 pi i / L).                    *)
(***************************************************************************)
CycZero(L) == [m \in 0 .. (L - 1) |-> 0]

\* z^e
CycRoot(L, e) == [m \in 0 .. (L - 1) |-> IF m = e % L THEN 1 ELSE 0]

\* the complex product
CycMul(a, b) ==
    LET L == Cardinality(DOMAIN a)
    IN  [m \in 0 .. (L - 1) |->
            SumTo([u \in 0 .. (L - 1) |-> a[u] * b[(m - u) % L]], L)]

\* the complex conjugate: conj(z^m) = z^(-m)
CycConj(a) ==
    LET L == Cardinality(DOMAIN a)
    IN  [m \in 0 .. (L - 1) |-> a[(L - m) % L]]

\* L times the normalised field trace of z^m; the trace of a rational number
\* is the number itself, so a ring element known to be rational is
\* (sum of c[m] * TraceNum(L, m)) / Phi(L).
TraceNum(L, m) ==
    LET q == L \div Gcd(m, L)
    IN  Mobius(q) * (Phi(L) \div Phi(q))

(***************************************************************************)
(* pyfftw.next_fast_len: the smallest length >= target of the form         *)
(* 2^a 3^b 5^c 7^d 11^e 13^f with e + f <= 1.                              *)
(***************************************************************************)
RECURSIVE StripFactor(_, _)
StripFactor(n, p) == IF n % p = 0 THEN StripFactor(n \div p, p) ELSE n

IsFastLen(n) == StripFactor(StripFactor(StripFactor(StripFactor(n, 2), 3), 5), 7) \in {1, 11, 13}

\* Mutant of next_fast_len: no rounding up to a fast length.
next_fast_len_identity(target) == target

RECURSIVE next_fast_len(_)
\* A target of 16 or less, zero and negative ones included, is returned as
\* it is.
next_fast_len(target) ==
    IF target <= 16 \/ IsFastLen(target) THEN target ELSE next_fast_len(target + 1)

(***************************************************************************)
(* The transforms an FFTW plan over axes (0, 1) executes.                  *)
(***************************************************************************)
\* The exponent of z in exp(-2 pi i (k1 n1 / N1 + k2 n2 / N2)), times sign.
Twiddle(N, k, n, sign) ==
    LET L == Lcm(N[1], N[2])
    IN  (sign * (k[1] * n[1] * (L \div N[1]) + k[2] * n[2] * (L \div N[2]))) % L

\* Real to complex, forward: bin k of the half spectrum of the real array a
\* of shape N.
ForwardBin(a, N, k) ==
    LET L == Lcm(N[1], N[2])
        M == N[1] * N[2]
    IN  [m \in 0 .. (L - 1) |->
            SumTo([p \in 0 .. (M - 1) |->
                      LET n == << p \div N[2], p % N[2] >>
                      IN  IF Twiddle(N, k, n, -1) = m THEN a[n] ELSE 0], M)]

\* The full spectrum a complex to real transform works on: the bins the half
\* spectrum H leaves out are the conjugates of their mirror bins.
HermitianBin(H, N, k) ==
    IF k[2] <= N[2] \div 2
    THEN H[k]
    ELSE CycConj(H[<< (N[1] - k[1]) % N[1], N[2] - k[2] >>])

\* Complex to real, backward, as FFTW computes it: not scaled.  The sample n
\* of the real array of shape N whose half spectrum is H.
BackwardSample(H, N, n) ==
    LET L == Lcm(N[1], N[2])
        M == N[1] * N[2]
        T == [m \in 0 .. (L - 1) |-> TraceNum(L, m)]
        term(k) == LET X == HermitianBin(H, N, k)
                       e == Twiddle(N, k, n, 1)
                   IN  SumTo([u \in 0 .. (L - 1) |-> X[u] * T[(u + e) % L]], L)
    IN  SumTo([p \in 0 .. (M - 1) |-> term(<< p \div N[2], p % N[2] >>)], M)
        \div Phi(L)

\* pyfftw.FFTW.__call__ of a forward plan: the output array it fills.
FFTW_Forward(a, N, out) == [k \in DOMAIN out |-> ForwardBin(a, N, k)]

\* Mutant of FFTW_Backward: the plan executed without pyfftw's scaling
\* (normalise_idft=False, FFTW's own unnormalised backward transform).
FFTW_Backward_unscaled(H, N, out) == [n \in DOMAIN out |-> BackwardSample(H, N, n)]

\* pyfftw.FFTW.__call__ of a backward plan with the default
\* normalise_idft=True: the output array it fills, scaled by 1/N.
FFTW_Backward(H, N, out) ==
    [n \in DOMAIN out |-> BackwardSample(H, N, n) \div (N[1] * N[2])]

\* What executing a plan leaves in its input array: a plan built with
\* FFTW_DESTROY_INPUT may overwrite it with arbitrary data.
InputAfter(plan, a) ==
    IF plan.destroys THEN [p \in DOMAIN a |-> plan.scribble] ELSE a

(***************************************************************************)
(* numba kernels.                                                          *)
(***************************************************************************)
\* fast_multiply(in1, in2, out): the array out holds afterwards.
fast_multiply(in1, in2, out) ==
    [k \in DOMAIN out |-> IF k \in DOMAIN in1 THEN CycMul(in1[k], in2[k]) ELSE out[k]]

\* Mutant of fast_conjugate: the conjugation is left out.
fast_conjugate_identity(in1) == in1

\* fast_conjugate(in1): np.conjugate, a new array.
fast_conjugate(in1) == [k \in DOMAIN in1 |-> CycConj(in1[k])]

\* The arrays a fast_multiply call of an engine method gets, each named by
\* the attribute of the engine it is; "new" is an array made for the call.
NoKernelCall == [in1 |-> "None", in2 |-> "None", out |-> "None"]

\* fast_multiply(in1, in2, out) called on arrays of the object obj: the
\* object afterwards.  The kernel writes through its argument, so the
\* attribute that is the out array holds the products.
CallFastMultiply(obj, args, new) ==
    LET arr(r) == IF r = "new" THEN new ELSE obj[r]
    IN  [obj EXCEPT ![args.out] = fast_multiply(arr(args.in1), arr(args.in2), @)]

\* dst[r0:r1, c0:c1] = C[sr0:sr1, sc0:sc1] on st = [err, arr], the state of
\* fast_fftshift's local "shifted".  The two slices must have the same
\* lengths along each axis, a source axis of length 1 being broadcast;
\* otherwise the assignment raises ValueError, and so does every statement
\* after one that raised.
AssignSlice(st, r0, r1, c0, c1, C, sr0, sr1, sc0, sc1) ==
    LET dn == << r1 - r0, c1 - c0 >>
        sn == << sr1 - sr0, sc1 - sc0 >>
        fits == \A ax \in 1 .. 2 : sn[ax] = dn[ax] \/ sn[ax] = 1
        from(p) == << sr0 + (IF sn[1] = 1 THEN 0 ELSE p[1] - r0),
                      sc0 + (IF sn[2] = 1 THEN 0 ELSE p[2] - c0) >>
    IN  IF st.err \/ ~fits
        THEN [err |-> TRUE, arr |-> st.arr]
        ELSE [err |-> FALSE,
              arr |-> [p \in DOMAIN st.arr |->
                          IF p[1] \in r0 .. (r1 - 1) /\ p[2] \in c0 .. (c1 - 1)
                          THEN C[from(p)]
                          ELSE st.arr[p]]]

\* Mutant of fast_fftshift: the rows are rolled by one place.
fast_fftshift_roll_one(C, junk) ==
    [raised |-> FALSE,
     value |-> [p \in DOMAIN C |-> C[<< (p[1] + 1) % ShapeOf(C)[1], p[2] >>]]]

\* fast_fftshift(C): [raised, value].  np.empty_like(C) holds what the memory
\* held (junk); the four quadrant assignments follow.
fast_fftshift(C, junk) ==
    LET rows == ShapeOf(C)[1]
        cols == ShapeOf(C)[2]
        half_rows == rows \div 2
        half_cols == cols \div 2
        shifted == [err |-> FALSE, arr |-> [p \in DOMAIN C |-> junk]]
        q1 == AssignSlice(shifted, 0, half_rows, 0, half_cols,
                          C, half_rows, rows, half_cols, cols)
        q2 == AssignSlice(q1, 0, half_rows, half_cols, cols,
                          C, half_rows, rows, 0, half_cols)
        q3 == AssignSlice(q2, half_rows, rows, 0, half_cols,
                          C, 0, half_rows, half_cols, cols)
        q4 == AssignSlice(q3, half_rows, rows, half_cols, cols,
                          C, 0, half_rows, 0, half_cols)
    IN  IF q4.err
        THEN [raised |-> TRUE, value |-> NoArray]
        ELSE [raised |-> FALSE, value |-> q4.arr]

(***************************************************************************)
(* Inputs of the model.                                                    *)
(***************************************************************************)
\* The input arrays of a shape: the constant arrays, and the unit impulses
\* at the first and at the last index.
Const(shape, v) == [p \in Idx(shape) |-> v]

Impulse(shape, at, v) == [p \in Idx(shape) |-> IF p = at THEN v ELSE 0]

InputArrays(shape) ==
    {Const(shape, v) : v \in 0 .. MaxVal}
        \cup {Impulse(shape, <<0, 0>>, 1),
              Impulse(shape, <<shape[1] - 1, shape[2] - 1>>, 1)}

\* The constructor calls of FFTW_Convolver_Full2D the model makes: <<s1, s2>>,
\* s2 = <<>> being the default s2=().
ConvCtorArgs ==
    { << <<1, 1>>, <<>> >>,
      << <<1, 2>>, <<2, 1>> >>,
      << <<2, 2>>, <<1, 1>> >>,
      << <<2, 1>>, <<>> >>,
      << <<3, 3>>, <<>> >> }

(***************************************************************************)
(* FFTW_Convolver_Full2D.                                                  *)
(***************************************************************************)
\* Mutant of ConvShape: the "- 1" of the full convolution length is dropped.
ConvShape_no_minus_one(s1, s2) == << s1[1] + s2[1], s1[2] + s2[2] >>

\* shape of __init__: the shape of the full convolution.
ConvShape(s1, s2) == << s1[1] + s2[1] - 1, s1[2] + s2[2] - 1 >>

\* A pyfftw.FFTW object.  The planner measures (FFTW_MEASURE) and picks the
\* algorithm; FFTW_DESTROY_INPUT lets it pick one that overwrites the input
\* array: "destroys" is the planner's choice.  The forward plans of one
\* engine solve the same problem and get the same algorithm (the planner
\* remembers its choice); a backward real transform over two axes always
\* destroys its input.
Plan(input, output, direction, destroys, scribble) ==
    [input |-> input, output |-> output, direction |-> direction,
     flags |-> {"FFTW_MEASURE", "FFTW_DESTROY_INPUT"},
     destroys |-> destroys, scribble |-> scribble]

\* __init__(s1, s2): the attributes of the new instance.  zeros_aligned
\* buffers are zero (the planner leaves a zero array zero); empty_aligned
\* buffers hold whatever the memory held.
ConvConstruct(s1, s2arg, destroys) ==
    LET s2 == IF s2arg = <<>> THEN s1 ELSE s2arg
        shape == ConvShape(s1, s2)
        fshape == << next_fast_len(shape[1]), next_fast_len(shape[2]) >>
        fshape_out == << fshape[1], fshape[2] \div 2 + 1 >>
        L == Lcm(fshape[1], fshape[2])
        junk == [m \in 0 .. (L - 1) |-> IF m = 0 THEN Scribble ELSE 0]
    IN  [fshape |-> fshape,
         fslice |-> shape,
         rfft_in1 |-> Filled(fshape, 0),
         rfft_in2 |-> Filled(fshape, 0),
         rfft_out1 |-> Filled(fshape_out, junk),
         rfft_out2 |-> Filled(fshape_out, junk),
         irfft_in |-> Filled(fshape_out, junk),
         irfft_out |-> Filled(fshape, Scribble),
         fftw_rfft1 |-> Plan("rfft_in1", "rfft_out1", "FFTW_FORWARD", destroys, Scribble),
         fftw_rfft2 |-> Plan("rfft_in2", "rfft_out2", "FFTW_FORWARD", destroys, Scribble),
         fftw_irfft |-> Plan("irfft_in", "irfft_out", "FFTW_BACKWARD", TRUE, junk)]

\* The declared shapes of the engine.
DeclS1 == cargs[1]

DeclS2 == IF cargs[2] = <<>> THEN cargs[1] ELSE cargs[2]

\* Mutant of SliceAssign: the attribute is bound to a new array of the
\* input's shape.
SliceAssign_rebind(buf, src) == src

\* buf[: src.shape[0], : src.shape[1]] = src
SliceAssign(buf, src) == [p \in DOMAIN buf |-> IF p \in DOMAIN src THEN src[p] ELSE buf[p]]

\* The values seen through a[fslice], a view of the array a.
Sliced(a, fslice) == [p \in Idx(fslice) |-> a[p]]

\* The values seen now through the array v, the engine being as it is.
ViewValues(engine, v) ==
    IF v.base = "owndata" THEN v.data ELSE Sliced(engine[v.base], v.slice)

\* Mutant of ReturnedArray: a copy of the slice is returned.
ReturnedArray_copy(engine) ==
    [base |-> "owndata", slice |-> engine.fslice,
     data |-> Sliced(engine.irfft_out, engine.fslice)]

\* lines 193, 196: self._fftw_irfft() returns the plan's output array,
\* self._irfft_out, and result[self.fslice], basic slicing, is a view of it.
ReturnedArray(engine) == [base |-> "irfft_out", slice |-> engine.fslice, data |-> NoArray]

\* The values the caller sees through the array convolve() returned.
ConvResult ==
    IF cf.result.base = "None" THEN NoArray ELSE ViewValues(conv, cf.result)

ConvInit ==
    /\ \E args \in ConvCtorArgs : \E destroys \in BOOLEAN :
          /\ cargs = args
          /\ conv = ConvConstruct(args[1], args[2], destroys)
    /\ cf = [pc |-> "idle", in1 |-> NoArray, in2 |-> NoArray,
             kernel |-> NoKernelCall, result |-> NoView, raised |-> FALSE]
    /\ clast = NoCall

\* convolve(in1, in2) is entered; lines 186-187: the inputs are copied into
\* the leading regions of the two real input buffers.
ConvCopyIn ==
    /\ cf.pc = "idle"
    /\ \E in1 \in InputArrays(DeclS1) : \E in2 \in InputArrays(DeclS2) :
          /\ conv' = [conv EXCEPT !.rfft_in1 = SliceAssign(@, in1),
                                  !.rfft_in2 = SliceAssign(@, in2)]
          /\ cf' = [cf EXCEPT !.pc = "rfft1", !.in1 = in1, !.in2 = in2]
    /\ clast' = [valid |-> cf.result.base # "None", in1 |-> cf.in1, in2 |-> cf.in2,
                 out |-> ConvResult, view |-> cf.result]
    /\ UNCHANGED cargs
    /\ ConvFrame

\* Mutant of ConvRfft1: the forward plan runs on the caller's array in1
\* itself, which it may overwrite, instead of on a copy of it.
ConvRfft1_on_caller_array ==
    /\ cf.pc = "rfft1"
    /\ conv' = [conv EXCEPT
                  !.rfft_out1 = FFTW_Forward(conv.rfft_in1, conv.fshape, @)]
    /\ cf' = [cf EXCEPT !.pc = "rfft2", !.in1 = InputAfter(conv.fftw_rfft1, @)]
    /\ UNCHANGED <<cargs, clast>>
    /\ ConvFrame

\* line 188: self._fftw_rfft1()
ConvRfft1 ==
    /\ cf.pc = "rfft1"
    /\ conv' = [conv EXCEPT
                  !.rfft_out1 = FFTW_Forward(conv.rfft_in1, conv.fshape, @),
                  !.rfft_in1 = InputAfter(conv.fftw_rfft1, @)]
    /\ cf' = [cf EXCEPT !.pc = "rfft2"]
    /\ UNCHANGED <<cargs, clast>>
    /\ ConvFrame

\* line 189: self._fftw_rfft2()
ConvRfft2 ==
    /\ cf.pc = "rfft2"
    /\ conv' = [conv EXCEPT
                  !.rfft_out2 = FFTW_Forward(conv.rfft_in2, conv.fshape, @),
                  !.rfft_in2 = InputAfter(conv.fftw_rfft2, @)]
    /\ cf' = [cf EXCEPT !.pc = "multiply"]
    /\ UNCHANGED <<cargs, clast>>
    /\ ConvFrame

\* Mutant of ConvMultiplyArgs: the product is written into the first operand.
ConvMultiplyArgs_aliased == [in1 |-> "rfft_out1", in2 |-> "rfft_out2", out |-> "rfft_out1"]

\* The arguments of line 192.
ConvMultiplyArgs == [in1 |-> "rfft_out1", in2 |-> "rfft_out2", out |-> "irfft_in"]

\* line 192: fast_multiply(self._rfft_out1, self._rfft_out2, self._irfft_in)
ConvMultiply ==
    /\ cf.pc = "multiply"
    /\ conv' = CallFastMultiply(conv, ConvMultiplyArgs, NoArray)
    /\ cf' = [cf EXCEPT !.pc = "irfft", !.kernel = ConvMultiplyArgs]
    /\ UNCHANGED <<cargs, clast>>
    /\ ConvFrame

\* line 193: result = self._fftw_irfft()
ConvIrfft ==
    /\ cf.pc = "irfft"
    /\ conv' = [conv EXCEPT
                  !.irfft_out = FFTW_Backward(conv.irfft_in, conv.fshape, @),
                  !.irfft_in = InputAfter(conv.fftw_irfft, @)]
    /\ cf' = [cf EXCEPT !.pc = "return"]
    /\ UNCHANGED <<cargs, clast>>
    /\ ConvFrame

\* line 196: return result[self.fslice], a view of self._irfft_out
ConvReturn ==
    /\ cf.pc = "return"
    /\ cf' = [cf EXCEPT !.pc = "idle", !.result = ReturnedArray(conv)]
    /\ UNCHANGED <<conv, cargs, clast>>
    /\ ConvFrame

ConvNext ==
    \/ ConvCopyIn
    \/ ConvRfft1
    \/ ConvRfft2
    \/ ConvMultiply
    \/ ConvIrfft
    \/ ConvReturn

InitConv == ConvInit /\ AcOff /\ KernOff

SpecConv == InitConv /\ [][ConvNext]_vars

(***************************************************************************)
(* Claims about FFTW_Convolver_Full2D, checked under SpecConv.             *)
(***************************************************************************)
\* The direct full 2D linear convolution:
\* out[i, j] = sum over k, l of a[k, l] * b[i - k, j - l].
DirectConvolution(a, b) ==
    LET sa == ShapeOf(a)
        sb == ShapeOf(b)
        M  == Size(sa)
    IN  [q \in Idx(<< sa[1] + sb[1] - 1, sa[2] + sb[2] - 1 >>) |->
            SumTo([p \in 0 .. (M - 1) |->
                      LET k == << p \div sa[2], p % sa[2] >>
                          r == << q[1] - k[1], q[2] - k[2] >>
                      IN  IF r \in DOMAIN b THEN a[k] * b[r] ELSE 0], M)]

\* A convolve() call has returned, and it was the first one on the engine.
ConvFirstReturned == cf.pc = "idle" /\ cf.result.base # "None" /\ ~clast.valid

\* A convolve() call has returned.
ConvReturned == cf.pc = "idle" /\ cf.result.base # "None"

KnownAnswer33 ==
    LET rows == << <<1, 2, 3, 2, 1>>, <<2, 4, 6, 4, 2>>, <<3, 6, 9, 6, 3>>,
                   <<2, 4, 6, 4, 2>>, <<1, 2, 3, 2, 1>> >>
    IN  [p \in Idx(<<5, 5>>) |-> rows[p[1] + 1][p[2] + 1]]

\* C1: on a freshly constructed Convolver, convolve(in1, in2) with inputs of
\* the declared shapes returns the direct full 2D linear convolution of in1
\* and in2, not scaled by the padded size; a 3x3 array of ones convolved
\* with itself gives the known 5x5 answer.
C1_FreshConvolveIsDirectConvolution ==
    ConvFirstReturned =>
        /\ ConvResult = DirectConvolution(cf.in1, cf.in2)
        /\ (cf.in1 = Const(<<3, 3>>, 1) /\ cf.in2 = Const(<<3, 3>>, 1))
              => ConvResult = KnownAnswer33

C1_Witness ==
    /\ ConvFirstReturned
    /\ cf.in1 = Const(<<3, 3>>, 1)
    /\ cf.in2 = Const(<<3, 3>>, 1)
    /\ ConvResult[<<2, 2>>] = 9

\* C2: convolve called with inputs of the declared shapes s1, s2 returns an
\* array of shape (s1[0] + s2[0] - 1, s1[1] + s2[1] - 1).
C2_ConvolveShape ==
    ConvReturned =>
        /\ ShapeOf(cf.in1) = DeclS1
        /\ ShapeOf(cf.in2) = DeclS2
        /\ DOMAIN ConvResult = Idx(<< DeclS1[1] + DeclS2[1] - 1, DeclS1[2] + DeclS2[2] - 1 >>)

C2_Witness ==
    /\ ConvReturned
    /\ DeclS1 = <<1, 2>>
    /\ DeclS2 = <<2, 1>>
    /\ ShapeOf(ConvResult) = <<2, 2>>

\* Every element of the padded real buffer outside the leading region of
\* shape s is zero.
PadIsZero(buf, s) == \A p \in DOMAIN buf : p \notin Idx(s) => buf[p] = 0

\* C4: at the moment each forward transform starts, every element of
\* _rfft_in1 (resp. _rfft_in2) outside the leading s1 (resp. s2) region is
\* zero, after any number of convolve calls with inputs of the declared
\* shapes.
C4_PadZeroWhenForwardStarts ==
    /\ cf.pc = "rfft1" => PadIsZero(conv.rfft_in1, DeclS1)
    /\ cf.pc = "rfft2" => PadIsZero(conv.rfft_in2, DeclS2)

\* C5 (convolve): two calls in a row with the same inputs on the same
\* engine return element-wise identical outputs.
C5_ConvolveRepeatedCallStable ==
    (ConvReturned /\ clast.valid /\ clast.in1 = cf.in1 /\ clast.in2 = cf.in2)
        => ConvResult = clast.out

\* C14: the array convolve returns references the engine's _irfft_out, it is
\* not a copy: after a later convolve call on the same engine with
\* different inputs, the array the earlier call returned shows the later
\* call's values.
C14_ResultIsViewOfInternalBuffer ==
    /\ ConvReturned => cf.result.base = "irfft_out"
    /\ (ConvReturned /\ clast.valid) =>
          /\ clast.view.base = "irfft_out"
          /\ ViewValues(conv, clast.view) = ConvResult

C14_Witness ==
    /\ ConvReturned
    /\ clast.valid
    /\ cargs = << <<3, 3>>, << >> >>
    /\ clast.in1 = Const(<<3, 3>>, 1)
    /\ clast.in2 = Const(<<3, 3>>, 1)
    /\ cf.in1 = Const(<<3, 3>>, 0)
    /\ clast.out = KnownAnswer33
    /\ ViewValues(conv, clast.view) = Filled(<<5, 5>>, 0)

\* What convolve(in1, in2) returns on a newly constructed engine of the
\* given constructor arguments and planner's choice: lines 186-196 run on
\* the engine __init__ made.
FreshConvolve(s1, s2arg, destroys, in1, in2) ==
    LET e0 == ConvConstruct(s1, s2arg, destroys)
        e1 == [e0 EXCEPT !.rfft_in1 = SliceAssign(@, in1),
                         !.rfft_in2 = SliceAssign(@, in2)]
        e2 == [e1 EXCEPT !.rfft_out1 = FFTW_Forward(e1.rfft_in1, e1.fshape, @),
                         !.rfft_out2 = FFTW_Forward(e1.rfft_in2, e1.fshape, @)]
        e3 == CallFastMultiply(e2, ConvMultiplyArgs, NoArray)
        e4 == [e3 EXCEPT !.irfft_out = FFTW_Backward(e3.irfft_in, e3.fshape, @)]
    IN  ViewValues(e4, ReturnedArray(e4))

\* C25: the Convolver's results are history-independent: after any sequence
\* of earlier convolve calls with inputs of the declared shapes,
\* convolve(in1, in2) returns the values the same call returns on a newly
\* constructed engine of the same shapes.
C25_HistoryIndependent ==
    ConvReturned =>
        ConvResult = FreshConvolve(cargs[1], cargs[2], conv.fftw_rfft1.destroys,
                                   cf.in1, cf.in2)

\* C9: a Convolver constructed with s2 = (1, 1) and called as
\* convolve(A, [[1.0]]) returns an array of A's shape equal to A.
C9_UnitImpulseIsIdentity ==
    (ConvReturned /\ DeclS2 = <<1, 1>> /\ cf.in2 = Const(<<1, 1>>, 1))
        => ConvResult = cf.in1

(***************************************************************************)
(* FFTW_Autocorrelator_2D.                                                 *)
(***************************************************************************)
\* Two adjacent ones at the start of the first row: an input that is not
\* symmetric under reversal.
Step(shape) == [p \in Idx(shape) |-> IF p[1] = 0 /\ p[2] <= 1 THEN 1 ELSE 0]

AcInputArrays(shape) == InputArrays(shape) \cup {Step(shape)}

\* The constructor calls of FFTW_Autocorrelator_2D the model makes: s1.
AcCtorArgs == { <<1, 1>>, <<2, 2>>, <<2, 4>>, <<4, 2>>, <<2, 3>>, <<3, 3>> }

\* __init__(s1): the attributes of the new instance.
AcConstruct(s1, destroys) ==
    LET fshape == << next_fast_len(s1[1]), next_fast_len(s1[2]) >>
        fshape_out == << fshape[1], fshape[2] \div 2 + 1 >>
        L == Lcm(fshape[1], fshape[2])
        junk == [m \in 0 .. (L - 1) |-> IF m = 0 THEN Scribble ELSE 0]
    IN  [fshape |-> fshape,
         fslice |-> s1,
         rfft_in |-> Filled(fshape, 0),
         rfft_out |-> Filled(fshape_out, junk),
         irfft_in |-> Filled(fshape_out, junk),
         irfft_out |-> Filled(fshape, Scribble),
         fftw_rfft |-> Plan("rfft_in", "rfft_out", "FFTW_FORWARD", destroys, Scribble),
         fftw_irfft |-> Plan("irfft_in", "irfft_out", "FFTW_BACKWARD", TRUE, junk)]

\* a / d, element by element: each element is the fraction <<numerator,
\* denominator>>.
Divided(a, d) == [p \in DOMAIN a |-> << a[p], d >>]

NoOutcome == [raised |-> FALSE, value |-> NoArray]

AcInit ==
    /\ \E s1 \in AcCtorArgs : \E destroys \in BOOLEAN :
          /\ aargs = s1
          /\ acor = AcConstruct(s1, destroys)
    /\ af = [pc |-> "idle", in1 |-> NoArray, kernel |-> NoKernelCall,
             done |-> FALSE, outcome |-> NoOutcome]
    /\ alast = [valid |-> FALSE, in1 |-> NoArray, outcome |-> NoOutcome]

\* autocorrelate(in1) is entered; line 196: the input is copied into the
\* leading region of the real input buffer.
AcCopyIn ==
    /\ af.pc = "idle"
    /\ \E in1 \in AcInputArrays(aargs) :
          /\ acor' = [acor EXCEPT !.rfft_in = SliceAssign(@, in1)]
          /\ af' = [af EXCEPT !.pc = "rfft", !.in1 = in1]
    /\ alast' = [valid |-> af.done, in1 |-> af.in1, outcome |-> af.outcome]
    /\ UNCHANGED aargs
    /\ AcFrame

\* line 197: self._fftw_rfft()
AcRfft ==
    /\ af.pc = "rfft"
    /\ acor' = [acor EXCEPT
                  !.rfft_out = FFTW_Forward(acor.rfft_in, acor.fshape, @),
                  !.rfft_in = InputAfter(acor.fftw_rfft, @)]
    /\ af' = [af EXCEPT !.pc = "multiply"]
    /\ UNCHANGED <<aargs, alast>>
    /\ AcFrame

\* The arguments of lines 199-201: the second operand is the array
\* fast_conjugate returned.
AcMultiplyArgs == [in1 |-> "rfft_out", in2 |-> "new", out |-> "irfft_in"]

\* lines 199-201:
\* fast_multiply(self._rfft_out, fast_conjugate(self._rfft_out), self._irfft_in)
AcMultiply ==
    /\ af.pc = "multiply"
    /\ acor' = CallFastMultiply(acor, AcMultiplyArgs, fast_conjugate(acor.rfft_out))
    /\ af' = [af EXCEPT !.pc = "irfft", !.kernel = AcMultiplyArgs]
    /\ UNCHANGED <<aargs, alast>>
    /\ AcFrame

\* line 204: result = self._fftw_irfft()
AcIrfft ==
    /\ af.pc = "irfft"
    /\ acor' = [acor EXCEPT
                  !.irfft_out = FFTW_Backward(acor.irfft_in, acor.fshape, @),
                  !.irfft_in = InputAfter(acor.fftw_irfft, @)]
    /\ af' = [af EXCEPT !.pc = "return"]
    /\ UNCHANGED <<aargs, alast>>
    /\ AcFrame

\* line 207: return fast_fftshift(result[self.fslice] / (in1.size)); a
\* ValueError raised in fast_fftshift ends the call.
AcReturn ==
    /\ af.pc = "return"
    /\ af' = [af EXCEPT
                !.pc = "idle",
                !.done = TRUE,
                !.outcome = fast_fftshift(
                               Divided(Sliced(acor.irfft_out, acor.fslice),
                                       Cardinality(DOMAIN af.in1)),
                               << Scribble, 1 >>)]
    /\ UNCHANGED <<acor, aargs, alast>>
    /\ AcFrame

AcNext ==
    \/ AcCopyIn
    \/ AcRfft
    \/ AcMultiply
    \/ AcIrfft
    \/ AcReturn

InitAc == AcInit /\ ConvOff /\ KernOff

SpecAc == InitAc /\ [][AcNext]_vars

(***************************************************************************)
(* Claims about FFTW_Autocorrelator_2D, checked under SpecAc.              *)
(***************************************************************************)
\* An autocorrelate() call has ended: it returned or it raised.
AcEnded == af.pc = "idle" /\ af.done

\* An autocorrelate() call has returned an array.
AcReturned == AcEnded /\ ~af.outcome.raised

\* Fractions <<numerator, denominator>> with positive denominators.
FracLeq(x, y) == x[1] * y[2] <= y[1] * x[2]

FracEq(x, y) == x[1] * y[2] = y[1] * x[2]

\* sum(A * A)
SumOfSquares(a) ==
    LET sa == ShapeOf(a)
        M  == Size(sa)
    IN  SumTo([p \in 0 .. (M - 1) |->
                  a[<< p \div sa[2], p % sa[2] >>] * a[<< p \div sa[2], p % sa[2] >>]], M)

\* C3: for every declared shape s1, each dimension >= 1, even or odd, and
\* every input of that shape, autocorrelate(in1) completes and returns an
\* array whose shape is in1's shape.
C3_AutocorrelateReturnsInputShape ==
    AcEnded => /\ ~af.outcome.raised
               /\ DOMAIN af.outcome.value = DOMAIN af.in1

\* C6: for any input A of the declared shape (n, m), the maximum of
\* autocorrelate(A) is at the index (n // 2, m // 2) and equals
\* sum(A * A) / A.size.
C6_PeakAtCenter ==
    AcEnded =>
        /\ ~af.outcome.raised
        /\ LET r == af.outcome.value
               c == << aargs[1] \div 2, aargs[2] \div 2 >>
           IN  /\ \A p \in DOMAIN r : FracLeq(r[p], r[c])
               /\ FracEq(r[c], << SumOfSquares(af.in1), Size(aargs) >>)

IsEven(n) == n % 2 = 0

ZeroPadded(a, N) == [p \in Idx(N) |-> IF p \in DOMAIN a THEN a[p] ELSE 0]

\* The circular autocorrelation, periodic over the shape N, of the array P of
\* shape N: R[d] = sum over n of P[n] * P[(n + d) mod N].
CircularAutocorrelation(P, N) ==
    LET M == Size(N)
    IN  [d \in Idx(N) |->
            SumTo([q \in 0 .. (M - 1) |->
                      LET n == << q \div N[2], q % N[2] >>
                      IN  P[n] * P[<< (n[1] + d[1]) % N[1], (n[2] + d[2]) % N[2] >>]], M)]

\* C12: for every real input A of the declared shape s1, autocorrelate(A) is
\* the circular autocorrelation, periodic over fshape, of A zero padded to
\* fshape, restricted to the leading s1 region of lags, every element
\* divided by A.size (the size of the input, not of the padded buffer), and
\* then quadrant shifted: the element at lag d lands at
\* (d + floor(s1 / 2)) mod s1.  No 2n-1 padding is applied.
C12_CircularAutocorrelation ==
    AcEnded =>
        /\ ~af.outcome.raised
        /\ DOMAIN af.outcome.value = Idx(aargs)
        /\ acor.fshape = << next_fast_len(aargs[1]), next_fast_len(aargs[2]) >>
        /\ LET R == CircularAutocorrelation(ZeroPadded(af.in1, acor.fshape), acor.fshape)
           IN  \A p \in Idx(aargs) :
                  FracEq(af.outcome.value[p],
                         << R[<< (p[1] + aargs[1] - aargs[1] \div 2) % aargs[1],
                                 (p[2] + aargs[2] - aargs[2] \div 2) % aargs[2] >>],
                            Size(ShapeOf(af.in1)) >>)

(***************************************************************************)
(* The two engines: a program holds one engine, a Convolver or an          *)
(* Autocorrelator, and calls its compute method again and again.           *)
(***************************************************************************)
InitEngines == InitConv \/ InitAc

EnginesNext == ConvNext \/ AcNext

SpecEngines == InitEngines /\ [][EnginesNext]_vars

\* C11: after fast_multiply(A, B, Out) returns, Out[i, j] = A[i, j] * B[i, j]
\* for every index of A's shape and A and B are unchanged; in every convolve
\* and autocorrelate call the Out array passed to the kernel (_irfft_in) is
\* a different array from both operands.
C11_KernelContractAndNoAliasing ==
    /\ [](/\ cf.pc = "irfft" =>
              /\ cf.kernel.out = "irfft_in"
              /\ cf.kernel.out \notin {cf.kernel.in1, cf.kernel.in2}
              /\ \A k \in DOMAIN conv.rfft_out1 :
                    conv.irfft_in[k] = CycMul(conv.rfft_out1[k], conv.rfft_out2[k])
          /\ af.pc = "irfft" =>
              /\ af.kernel.out = "irfft_in"
              /\ af.kernel.out \notin {af.kernel.in1, af.kernel.in2}
              /\ \A k \in DOMAIN acor.rfft_out :
                    acor.irfft_in[k] = CycMul(acor.rfft_out[k], CycConj(acor.rfft_out[k])))
    /\ [][/\ cf.pc = "multiply" =>
              /\ conv'.rfft_out1 = conv.rfft_out1
              /\ conv'.rfft_out2 = conv.rfft_out2
          /\ af.pc = "multiply" => acor'.rfft_out = acor.rfft_out]_vars

\* The attributes of an engine that are arrays: all of them allocated by
\* the constructor.
EngineArrays(engine) ==
    DOMAIN engine \ {"fshape", "fslice", "fftw_rfft1", "fftw_rfft2", "fftw_rfft", "fftw_irfft"}

\* C15: convolve and autocorrelate treat the caller's arrays as read-only:
\* after any call in1 (and in2) hold the values they held before the call,
\* and no engine buffer shares memory with them: every array a plan or the
\* kernel writes or reads is an array the engine allocated (or one made
\* during the call), and so is the base of the returned view.
C15_CallerArraysReadOnly ==
    /\ [][/\ cf.pc \notin {"idle", Off} => (cf'.in1 = cf.in1 /\ cf'.in2 = cf.in2)
          /\ af.pc \notin {"idle", Off} => af'.in1 = af.in1]_vars
    /\ [](/\ cf.pc # Off =>
              /\ \A pl \in {"fftw_rfft1", "fftw_rfft2", "fftw_irfft"} :
                    {conv[pl].input, conv[pl].output} \subseteq EngineArrays(conv)
              /\ cf.kernel # NoKernelCall =>
                    {cf.kernel.in1, cf.kernel.in2, cf.kernel.out}
                        \subseteq EngineArrays(conv) \cup {"new"}
              /\ cf.result.base \in EngineArrays(conv) \cup {"None"}
          /\ af.pc # Off =>
              /\ \A pl \in {"fftw_rfft", "fftw_irfft"} :
                    {acor[pl].input, acor[pl].output} \subseteq EngineArrays(acor)
              /\ af.kernel # NoKernelCall =>
                    {af.kernel.in1, af.kernel.in2, af.kernel.out}
                        \subseteq EngineArrays(acor) \cup {"new"})

C15_Witness ==
    /\ ConvReturned
    /\ conv.fftw_rfft1.destroys
    /\ cf.in1 = Impulse(<<2, 2>>, <<1, 1>>, 1)
    /\ cf.in2 = Const(<<1, 1>>, 1)
    /\ conv.rfft_in1 = Filled(<<2, 2>>, Scribble)

\* The attributes of an engine that are transform plans.
EnginePlans(engine) == DOMAIN engine \cap {"fftw_rfft1", "fftw_rfft2", "fftw_rfft", "fftw_irfft"}

\* What a step of a compute call must leave as it is in the engine.
EngineLayoutKept(before, after) ==
    /\ DOMAIN after = DOMAIN before
    /\ after.fshape = before.fshape
    /\ after.fslice = before.fslice
    /\ \A b \in EngineArrays(before) : DOMAIN after[b] = DOMAIN before[b]
    /\ \A pl \in EnginePlans(before) : after[pl] = before[pl]

\* C17: across any sequence of compute calls on an engine, fshape, fslice
\* and the shapes of all engine buffers are unchanged and no transform plan
\* is created: the plans are those the constructor built (two forward and
\* one backward for the Convolver, one forward and one backward for the
\* Autocorrelator) and the same plan objects serve every call.
C17_LayoutAndPlansFixed ==
    /\ [][/\ cf.pc # Off => EngineLayoutKept(conv, conv')
          /\ af.pc # Off => EngineLayoutKept(acor, acor')]_vars
    /\ [](/\ cf.pc # Off =>
              /\ EnginePlans(conv) = {"fftw_rfft1", "fftw_rfft2", "fftw_irfft"}
              /\ conv.fftw_rfft1.direction = "FFTW_FORWARD"
              /\ conv.fftw_rfft2.direction = "FFTW_FORWARD"
              /\ conv.fftw_irfft.direction = "FFTW_BACKWARD"
              /\ conv = [ConvConstruct(cargs[1], cargs[2], conv.fftw_rfft1.destroys)
                           EXCEPT !.rfft_in1 = conv.rfft_in1, !.rfft_in2 = conv.rfft_in2,
                                  !.rfft_out1 = conv.rfft_out1, !.rfft_out2 = conv.rfft_out2,
                                  !.irfft_in = conv.irfft_in, !.irfft_out = conv.irfft_out]
          /\ af.pc # Off =>
              /\ EnginePlans(acor) = {"fftw_rfft", "fftw_irfft"}
              /\ acor.fftw_rfft.direction = "FFTW_FORWARD"
              /\ acor.fftw_irfft.direction = "FFTW_BACKWARD"
              /\ acor = [AcConstruct(aargs, acor.fftw_rfft.destroys)
                           EXCEPT !.rfft_in = acor.rfft_in, !.rfft_out = acor.rfft_out,
                                  !.irfft_in = acor.irfft_in, !.irfft_out = acor.irfft_out])

C17_Witness ==
    /\ ConvReturned
    /\ clast.valid
    /\ cargs = << <<1, 2>>, <<2, 1>> >>
    /\ conv.fshape = <<2, 2>>
    /\ conv.fslice = <<2, 2>>
    /\ DOMAIN conv.rfft_in1 = Idx(<<2, 2>>)
    /\ DOMAIN conv.irfft_in = Idx(<<2, 2>>)
    /\ conv.irfft_out # ConvConstruct(cargs[1], cargs[2], TRUE).irfft_out

C11_Witness ==
    /\ cf.pc = "irfft"
    /\ cargs = << <<1, 2>>, <<2, 1>> >>
    /\ cf.in1 = Const(<<1, 2>>, 1)
    /\ cf.in2 = Const(<<2, 1>>, 1)
    /\ conv.rfft_out1[<<0, 0>>] = [m \in 0 .. 1 |-> IF m = 0 THEN 2 ELSE 0]
    /\ conv.irfft_in[<<0, 0>>] = [m \in 0 .. 1 |-> IF m = 0 THEN 4 ELSE 0]

(***************************************************************************)
(* The compute methods called with arrays of any shape, not only of the    *)
(* declared shapes.                                                        *)
(***************************************************************************)
AnyShapes == { <<1, 1>>, <<1, 2>>, <<2, 2>> }

AnyInputs == {Const(shape, 1) : shape \in AnyShapes}

\* buf[: src.shape[0], : src.shape[1]] = src raises ValueError: the slice is
\* cut to the buffer's shape, and an input that is longer than the buffer
\* along an axis cannot be broadcast into it.
SliceAssignRaises(buf, src) ==
    \E a \in 1 .. 2 : ShapeOf(src)[a] > ShapeOf(buf)[a]

\* convolve(in1, in2) is entered with arrays of any shape; lines 186-187.
\* An exception raised by line 186 or 187 ends the call.
ConvCopyInAny ==
    /\ cf.pc = "idle"
    /\ \E in1 \in AnyInputs : \E in2 \in AnyInputs :
          IF SliceAssignRaises(conv.rfft_in1, in1)
          THEN /\ conv' = conv
               /\ cf' = [cf EXCEPT !.in1 = in1, !.in2 = in2, !.raised = TRUE]
          ELSE IF SliceAssignRaises(conv.rfft_in2, in2)
          THEN /\ conv' = [conv EXCEPT !.rfft_in1 = SliceAssign(@, in1)]
               /\ cf' = [cf EXCEPT !.in1 = in1, !.in2 = in2, !.raised = TRUE]
          ELSE /\ conv' = [conv EXCEPT !.rfft_in1 = SliceAssign(@, in1),
                                       !.rfft_in2 = SliceAssign(@, in2)]
               /\ cf' = [cf EXCEPT !.pc = "rfft1", !.in1 = in1, !.in2 = in2,
                                   !.raised = FALSE]
    /\ clast' = [valid |-> cf.result.base # "None", in1 |-> cf.in1, in2 |-> cf.in2,
                 out |-> ConvResult, view |-> cf.result]
    /\ UNCHANGED cargs
    /\ ConvFrame

\* autocorrelate(in1) is entered with an array of any shape; line 196.
AcCopyInAny ==
    /\ af.pc = "idle"
    /\ \E in1 \in AnyInputs :
          IF SliceAssignRaises(acor.rfft_in, in1)
          THEN /\ acor' = acor
               /\ af' = [af EXCEPT !.in1 = in1, !.done = TRUE,
                                   !.outcome = [raised |-> TRUE, value |-> NoArray]]
          ELSE /\ acor' = [acor EXCEPT !.rfft_in = SliceAssign(@, in1)]
               /\ af' = [af EXCEPT !.pc = "rfft", !.in1 = in1]
    /\ alast' = [valid |-> af.done, in1 |-> af.in1, outcome |-> af.outcome]
    /\ UNCHANGED aargs
    /\ AcFrame

AnyNext ==
    \/ ConvCopyInAny
    \/ ConvRfft1
    \/ ConvRfft2
    \/ ConvMultiply
    \/ ConvIrfft
    \/ ConvReturn
    \/ AcCopyInAny
    \/ AcRfft
    \/ AcMultiply
    \/ AcIrfft
    \/ AcReturn

SpecAny == InitEngines /\ [][AnyNext]_vars

\* C18: convolve and autocorrelate do not validate the shapes of their
\* inputs against the declared shapes and surface no error to the caller at
\* call time, for any input shape, smaller or larger than the declared
\* shape or the padded buffer.
C18_NoErrorAtCallTime ==
    /\ cf.pc = "idle" => ~cf.raised
    /\ (af.pc = "idle" /\ af.done) => ~af.outcome.raised

(***************************************************************************)
(* The constructors called with any shape tuples: of zero, one or two      *)
(* entries, the entries negative, zero or positive.                        *)
(***************************************************************************)
\* The tuples of at most two entries drawn from dims.
ShapeTuples(dims) == {<< >>} \cup {<<d>> : d \in dims} \cup (dims \X dims)

\* The constructor calls made: the class and its arguments.
CtorCalls ==
    {[cls |-> "FFTW_Convolver_Full2D", s1 |-> s1, s2 |-> s2] :
        s1 \in ShapeTuples(-1 .. ((MaxLen + 1) \div 2)), s2 \in ShapeTuples(-1 .. 2)}
    \cup {[cls |-> "FFTW_Autocorrelator_2D", s1 |-> s1, s2 |-> << >>] :
            s1 \in ShapeTuples(-1 .. MaxLen)}

\* An exception left the constructor: there is no instance.
CtorRaised == [raised |-> TRUE, engine |-> NoArray]

\* FFTW_Convolver_Full2D(s1, s2).  Lines 122-125 index s1 and s2 at 0 and 1:
\* IndexError on a tuple of fewer than two entries.  next_fast_len returns a
\* length of 16 or less as it is, so a required length that is zero or
\* negative is the padded length; the allocations of lines 137-142 or, at
\* the latest, pyfftw.FFTW (lines 153-160: "Zero length array") then raise
\* ValueError.  Nothing else is checked.
ConvNew(s1, s2arg, destroys) ==
    LET s2 == IF s2arg = << >> THEN s1 ELSE s2arg
    IN  IF Len(s1) < 2 \/ Len(s2) < 2
        THEN CtorRaised
        ELSE IF \E a \in 1 .. 2 : next_fast_len(ConvShape(s1, s2)[a]) <= 0
        THEN CtorRaised
        ELSE [raised |-> FALSE, engine |-> ConvConstruct(s1, s2arg, destroys)]

\* FFTW_Autocorrelator_2D(s1): line 142 indexes s1 at 0 and 1; the rest as
\* for the Convolver.
AcNew(s1, destroys) ==
    IF Len(s1) < 2
    THEN CtorRaised
    ELSE IF \E a \in 1 .. 2 : next_fast_len(s1[a]) <= 0
    THEN CtorRaised
    ELSE [raised |-> FALSE, engine |-> AcConstruct(s1, destroys)]

CtorInit ==
    \E call \in CtorCalls :
        ctor = [pc |-> "call", call |-> call, outcome |-> CtorRaised]

\* engine = FFTW_Convolver_Full2D(s1, s2)
CtorConv ==
    /\ ctor.pc = "call"
    /\ ctor.call.cls = "FFTW_Convolver_Full2D"
    /\ \E destroys \in BOOLEAN :
          ctor' = [ctor EXCEPT !.pc = "done",
                               !.outcome = ConvNew(ctor.call.s1, ctor.call.s2, destroys)]
    /\ CtorFrame

\* engine = FFTW_Autocorrelator_2D(s1)
CtorAc ==
    /\ ctor.pc = "call"
    /\ ctor.call.cls = "FFTW_Autocorrelator_2D"
    /\ \E destroys \in BOOLEAN :
          ctor' = [ctor EXCEPT !.pc = "done",
                               !.outcome = AcNew(ctor.call.s1, destroys)]
    /\ CtorFrame

CtorNext == CtorConv \/ CtorAc

InitCtor == CtorInit /\ sh = Off /\ mp = Off /\ par = Off /\ curve = Off /\ flog = Off /\ ConvOff /\ AcOff

SpecCtor == InitCtor /\ [][CtorNext]_vars

\* A constructor call has ended and gave an instance.
Constructed == ctor.pc = "done" /\ ~ctor.outcome.raised

\* The length the transform must have along each axis.
RequiredShape ==
    LET s1 == ctor.call.s1
        s2 == IF ctor.call.s2 = << >> THEN s1 ELSE ctor.call.s2
    IN  IF ctor.call.cls = "FFTW_Convolver_Full2D"
        THEN << s1[1] + s2[1] - 1, s1[2] + s2[2] - 1 >>
        ELSE << s1[1], s1[2] >>

\* The lengths FFTW transforms fast: 2^a 3^b 5^c 7^d 11^e 13^f, e + f <= 1.
FftEfficient(n) ==
    \E a \in 0 .. 5, b \in 0 .. 3, c \in 0 .. 2, d \in 0 .. 2, e \in {1, 11, 13} :
        n = (2 ^ a) * (3 ^ b) * (5 ^ c) * (7 ^ d) * e

\* C13: for every constructed engine and each axis a, fshape[a] is the
\* smallest FFT-efficient length >= the required length (s1[a] + s2[a] - 1
\* for the Convolver, s1[a] for the Autocorrelator), so the output slice
\* lies inside the padded buffers (fslice[a].stop <= fshape[a]), and the
\* half-spectrum buffers have the shape (fshape[0], fshape[1] // 2 + 1).
C13_PaddedShapeIsSmallestFastLength ==
    Constructed =>
        LET e == ctor.outcome.engine
            half == Idx(<< e.fshape[1], e.fshape[2] \div 2 + 1 >>)
        IN  /\ \A a \in 1 .. 2 :
                  /\ e.fshape[a] >= RequiredShape[a]
                  /\ FftEfficient(e.fshape[a])
                  /\ \A n \in RequiredShape[a] .. (e.fshape[a] - 1) : ~FftEfficient(n)
                  /\ e.fslice[a] = RequiredShape[a]
                  /\ e.fslice[a] <= e.fshape[a]
            /\ DOMAIN e.irfft_in = half
            /\ IF ctor.call.cls = "FFTW_Convolver_Full2D"
               THEN DOMAIN e.rfft_out1 = half /\ DOMAIN e.rfft_out2 = half
               ELSE DOMAIN e.rfft_out = half

C13_Witness ==
    /\ Constructed
    /\ ctor.call = [cls |-> "FFTW_Convolver_Full2D", s1 |-> <<9, 2>>, s2 |-> << >>]
    /\ ctor.outcome.engine.fshape = <<18, 3>>
    /\ ctor.outcome.engine.fslice = <<17, 3>>
    /\ DOMAIN ctor.outcome.engine.irfft_in = Idx(<<18, 2>>)

\* A shape tuple that is invalid or degenerate: fewer than two entries, or
\* a zero or negative dimension.
Degenerate(s) == Len(s) < 2 \/ \E a \in 1 .. Len(s) : s[a] <= 0

\* C19: constructing a Convolver or an Autocorrelator with an invalid or
\* degenerate shape (a zero or negative dimension, or a shape of fewer than
\* two entries) ends in a hard failure at construction: no engine is
\* produced.
C19_DegenerateShapeFailsAtConstruction ==
    (/\ ctor.pc = "done"
     /\ \/ Degenerate(ctor.call.s1)
        \/ (ctor.call.s2 # << >> /\ Degenerate(ctor.call.s2)))
        => ctor.outcome.raised

(***************************************************************************)
(* Two threads call convolve() on one FFTW_Convolver_Full2D, once each.    *)
(* Python runs one statement of one thread at a time, in any order of the  *)
(* threads: a step is one statement of convolve(), taken as atomic.        *)
(***************************************************************************)
Callers == 1 .. 2

Other(c) == 3 - c

\* The constructor calls made.
ParCtorArgs == { << <<1, 2>>, <<2, 1>> >>, << <<1, 1>>, << >> >> }

ParS1 == par.args[1]

ParS2 == IF par.args[2] = << >> THEN par.args[1] ELSE par.args[2]

\* A thread is inside convolve().
ParActive(c) == par.frames[c].pc \notin {"start", "done"}

ParInit ==
    \E args \in ParCtorArgs : \E destroys \in BOOLEAN :
        par = [args |-> args,
               engine |-> ConvConstruct(args[1], args[2], destroys),
               frames |-> [c \in Callers |->
                             [pc |-> "start", in1 |-> NoArray, in2 |-> NoArray,
                              overlapped |-> FALSE, out |-> NoArray]]]

\* Thread c enters convolve(in1, in2); line 186.  A call overlaps another
\* one when it starts while the other is inside convolve().
ParCopy1(c) ==
    /\ par.frames[c].pc = "start"
    /\ \E in1 \in InputArrays(ParS1) : \E in2 \in InputArrays(ParS2) :
          par' = [par EXCEPT
                    !.engine.rfft_in1 = SliceAssign(@, in1),
                    !.frames[c] = [@ EXCEPT !.pc = "copy2", !.in1 = in1, !.in2 = in2,
                                            !.overlapped = ParActive(Other(c))],
                    !.frames[Other(c)].overlapped = @ \/ ParActive(Other(c))]
    /\ ParFrame

\* line 187
ParCopy2(c) ==
    /\ par.frames[c].pc = "copy2"
    /\ par' = [par EXCEPT
                 !.engine.rfft_in2 = SliceAssign(@, par.frames[c].in2),
                 !.frames[c].pc = "rfft1"]
    /\ ParFrame

\* line 188
ParRfft1(c) ==
    /\ par.frames[c].pc = "rfft1"
    /\ par' = [par EXCEPT
                 !.engine.rfft_out1 =
                     FFTW_Forward(par.engine.rfft_in1, par.engine.fshape, @),
                 !.engine.rfft_in1 = InputAfter(par.engine.fftw_rfft1, @),
                 !.frames[c].pc = "rfft2"]
    /\ ParFrame

\* line 189
ParRfft2(c) ==
    /\ par.frames[c].pc = "rfft2"
    /\ par' = [par EXCEPT
                 !.engine.rfft_out2 =
                     FFTW_Forward(par.engine.rfft_in2, par.engine.fshape, @),
                 !.engine.rfft_in2 = InputAfter(par.engine.fftw_rfft2, @),
                 !.frames[c].pc = "multiply"]
    /\ ParFrame

\* line 192
ParMultiply(c) ==
    /\ par.frames[c].pc = "multiply"
    /\ par' = [par EXCEPT
                 !.engine = CallFastMultiply(@, ConvMultiplyArgs, NoArray),
                 !.frames[c].pc = "irfft"]
    /\ ParFrame

\* line 193
ParIrfft(c) ==
    /\ par.frames[c].pc = "irfft"
    /\ par' = [par EXCEPT
                 !.engine.irfft_out =
                     FFTW_Backward(par.engine.irfft_in, par.engine.fshape, @),
                 !.engine.irfft_in = InputAfter(par.engine.fftw_irfft, @),
                 !.frames[c].pc = "return"]
    /\ ParFrame

\* line 196: out is what the caller reads in the returned array when it
\* gets it.
ParReturn(c) ==
    /\ par.frames[c].pc = "return"
    /\ par' = [par EXCEPT
                 !.frames[c].pc = "done",
                 !.frames[c].out = ViewValues(par.engine, ReturnedArray(par.engine))]
    /\ ParFrame

ParNext ==
    \E c \in Callers :
        \/ ParCopy1(c)
        \/ ParCopy2(c)
        \/ ParRfft1(c)
        \/ ParRfft2(c)
        \/ ParMultiply(c)
        \/ ParIrfft(c)
        \/ ParReturn(c)

InitPar == ParInit /\ sh = Off /\ mp = Off /\ ctor = Off /\ curve = Off /\ flog = Off /\ ConvOff /\ AcOff

SpecPar == InitPar /\ [][ParNext]_vars

\* The call of thread c has returned the convolution of its own inputs.
ParCorrect(c) ==
    par.frames[c].out = DirectConvolution(par.frames[c].in1, par.frames[c].in2)

\* Every call that has returned, overlapping or not, returned the
\* convolution of its own inputs: a state where this is false shows an
\* interleaving in which concurrent calls are unsafe.
ParEveryCallCorrect ==
    \A c \in Callers : par.frames[c].pc = "done" => ParCorrect(c)

\* C16: two convolve calls running concurrently on one Convolver are unsafe
\* (there is an interleaving of their steps in which a call returns a result
\* that is not the convolution of its own inputs); when the calls on one
\* instance are serialized, each call returns the convolution of its own
\* inputs.  The second half, which every behaviour must satisfy:
C16_SerializedCallsCorrect ==
    \A c \in Callers :
        (par.frames[c].pc = "done" /\ ~par.frames[c].overlapped) => ParCorrect(c)

(***************************************************************************)
(* fast_fftshift called on its own.                                        *)
(***************************************************************************)
\* A matrix of distinct entries, none of them the junk value.
Label(shape) == [p \in Idx(shape) |-> Scribble + 1 + p[1] * shape[2] + p[2]]

ShiftInputs ==
    UNION { InputArrays(shape) \cup {Label(shape)} :
              shape \in (1 .. MaxDim) \X (1 .. MaxDim) }

ShiftInit ==
    \E C \in ShiftInputs :
        sh = [pc |-> "call", C |-> C, outcome |-> NoOutcome, again |-> NoOutcome]

\* shifted = fast_fftshift(C)
ShiftCall ==
    /\ sh.pc = "call"
    /\ sh' = [sh EXCEPT !.pc = "done", !.outcome = fast_fftshift(sh.C, Scribble)]
    /\ ShiftFrame

\* back = fast_fftshift(shifted), when the first call returned
ShiftAgain ==
    /\ sh.pc = "done"
    /\ ~sh.outcome.raised
    /\ sh' = [sh EXCEPT !.pc = "again",
                        !.again = fast_fftshift(sh.outcome.value, Scribble)]
    /\ ShiftFrame

ShiftNext == ShiftCall \/ ShiftAgain

InitShift == ShiftInit /\ mp = Off /\ ctor = Off /\ par = Off /\ curve = Off /\ flog = Off /\ ConvOff /\ AcOff

SpecShift == InitShift /\ [][ShiftNext]_vars

\* C8: for every 2D matrix C with rows >= 1 and cols >= 1, even or odd,
\* fast_fftshift(C) returns a matrix of the same shape in which the four
\* quadrants got by splitting each axis at floor(n / 2) are swapped
\* diagonally, every element of the result coming from one element of C:
\* the block C[half_rows:, half_cols:] is the top-left block of the result,
\* and so on, which is result[i, j] = C[(i + rows - half_rows) mod rows,
\* (j + cols - half_cols) mod cols].
C8_ShiftSwapsQuadrants ==
    sh.pc = "done" =>
        /\ ~sh.outcome.raised
        /\ DOMAIN sh.outcome.value = DOMAIN sh.C
        /\ LET rows == ShapeOf(sh.C)[1]
               cols == ShapeOf(sh.C)[2]
           IN  \A p \in DOMAIN sh.C :
                  sh.outcome.value[p] =
                     sh.C[<< (p[1] + rows - rows \div 2) % rows,
                             (p[2] + cols - cols \div 2) % cols >>]

\* The matrix has an even number of rows and of columns.
EvenShape(C) == ShapeOf(C)[1] % 2 = 0 /\ ShapeOf(C)[2] % 2 = 0

\* b holds the elements of a, each as often as a holds it.
IsPermutationOf(b, a) ==
    /\ DOMAIN b = DOMAIN a
    /\ \A q \in DOMAIN a :
          Cardinality({p \in DOMAIN b : b[p] = a[q]}) =
          Cardinality({p \in DOMAIN a : a[p] = a[q]})

\* C29: for every matrix C with an even number of rows and of columns,
\* fast_fftshift(C) is a permutation of the elements of C and
\* fast_fftshift(fast_fftshift(C)) equals C; C itself is not modified by
\* the calls.
C29_ShiftIsInvolution ==
    /\ [](EvenShape(sh.C) =>
            /\ sh.pc \in {"done", "again"} =>
                  /\ ~sh.outcome.raised
                  /\ IsPermutationOf(sh.outcome.value, sh.C)
            /\ sh.pc = "again" =>
                  /\ ~sh.again.raised
                  /\ sh.again.value = sh.C)
    /\ [][sh'.C = sh.C]_vars

C29_Witness ==
    /\ sh.pc = "again"
    /\ sh.C = Label(<<4, 2>>)
    /\ sh.outcome.value[<<0, 0>>] = sh.C[<<2, 1>>]
    /\ sh.again.value = sh.C

(***************************************************************************)
(* fast_multiply_p: the parallel kernel.  numba runs the outer prange loop *)
(* on NumThreads threads, each taking a contiguous chunk of the rows; the  *)
(* inner prange is an ordinary loop.  One step writes one element.         *)
(***************************************************************************)
\* The complex number re + im i, in Z[z] with z = i (L = 4).
Cplx(re, im) == [m \in 0 .. 3 |-> IF m = 0 THEN re ELSE IF m = 1 THEN im ELSE 0]

MulShapes == { <<1, 2>>, <<2, 2>>, <<3, 2>>, <<4, 1>> }

MulInputs(shape) ==
    { [p \in Idx(shape) |-> Cplx(1, 0)],
      [p \in Idx(shape) |-> Cplx(0, 1)],
      [p \in Idx(shape) |-> Cplx(p[1] + 1, p[2])] }

Threads == 0 .. (NumThreads - 1)

\* rows per chunk: ceil(rows / NumThreads)
ChunkSize(rows) == (rows + NumThreads - 1) \div NumThreads

\* Mutant of ChunkRows: each chunk runs one row into the next chunk.
ChunkRows_overlapping(t, rows) ==
    {i \in 0 .. (rows - 1) : i \div ChunkSize(rows) = t \/ (i - 1) \div ChunkSize(rows) = t}

\* The rows i of "for i in prange(in1.shape[0])" that thread t runs.
ChunkRows(t, rows) == {i \in 0 .. (rows - 1) : i \div ChunkSize(rows) = t}

\* The k-th element (k = 0, 1, ...) thread t works on: its rows in
\* increasing order, j = 0 .. cols - 1 within each row.
ChunkElement(t, shape, k) ==
    LET mine == ChunkRows(t, shape[1])
        first == CHOOSE i \in mine : \A i2 \in mine : i <= i2
    IN  << first + k \div shape[2], k % shape[2] >>

ChunkLength(t, shape) == Cardinality(ChunkRows(t, shape[1])) * shape[2]

MulPInit ==
    \E shape \in MulShapes : \E A \in MulInputs(shape) : \E B \in MulInputs(shape) :
        mp = [in1 |-> A, in2 |-> B,
              out0 |-> Filled(shape, Cplx(Scribble, 0)),
              out |-> Filled(shape, Cplx(Scribble, 0)),
              next |-> [t \in Threads |-> 0],
              writers |-> [p \in Idx(shape) |-> << >>]]

\* Thread t runs one iteration of the inner loop, lines 82 / 93:
\* out[i, j] = in1[i, j] * in2[i, j]
MulPStep(t) ==
    /\ mp.next[t] < ChunkLength(t, ShapeOf(mp.in1))
    /\ LET p == ChunkElement(t, ShapeOf(mp.in1), mp.next[t])
       IN  mp' = [mp EXCEPT !.out[p] = CycMul(mp.in1[p], mp.in2[p]),
                            !.next[t] = @ + 1,
                            !.writers[p] = Append(@, t)]
    /\ MulPFrame

MulPNext == \E t \in Threads : MulPStep(t)

InitMulP == MulPInit /\ sh = Off /\ ctor = Off /\ par = Off /\ curve = Off /\ flog = Off /\ ConvOff /\ AcOff

SpecMulP == InitMulP /\ [][MulPNext]_vars

\* fast_multiply_p has returned: every thread has run its chunk.
MulPDone == \A t \in Threads : mp.next[t] = ChunkLength(t, ShapeOf(mp.in1))

\* C10: for the same equal-shape inputs and a non-aliasing output,
\* fast_multiply_p leaves in out exactly what fast_multiply leaves, under
\* every interleaving of its row partitions; no element is ever written by
\* two partitions, no element is written twice, and at the end each element
\* has been written exactly once.
C10_ParallelKernelEqualsScalar ==
    /\ \A p \in DOMAIN mp.out : Len(mp.writers[p]) <= 1
    /\ \A p \in DOMAIN mp.out :
          mp.writers[p] = << >> => mp.out[p] = mp.out0[p]
    /\ MulPDone =>
          /\ mp.out = fast_multiply(mp.in1, mp.in2, mp.out0)
          /\ \A p \in DOMAIN mp.out : Len(mp.writers[p]) = 1

C10_Witness ==
    /\ MulPDone
    /\ ShapeOf(mp.in1) = <<3, 2>>
    /\ mp.writers[<<0, 0>>] = <<0>>
    /\ mp.writers[<<2, 1>>] = <<1>>
    /\ mp.in1[<<2, 1>>] = Cplx(3, 1)
    /\ mp.in2[<<2, 1>>] = Cplx(0, 1)
    /\ mp.out[<<2, 1>>] = [m \in 0 .. 3 |-> IF m = 1 THEN 3 ELSE IF m = 2 THEN 1 ELSE 0]

(***************************************************************************)
(* ThreadSafeCurve (src/src/dvg_pyqtgraph_threadsafe.py), in its intended  *)
(* use: one thread pushes readings with add_new_reading(s), another thread *)
(* calls update().  ChartHistory (src/src/dvg_pyqt_charthistory.py) is the *)
(* same code with a ring buffer always.  Reading number r has the x value  *)
(* r and the y value r: a buffer is the sequence of the numbers of the     *)
(* readings whose value it holds.  A step is one statement.                *)
(***************************************************************************)
\* Mutant of MutexFree: the mutex is handed out while it is held.
MutexFree_always(mutex) == TRUE

\* QMutexLocker(self._mutex) returns when the mutex is free, and takes it.
MutexFree(mutex) == mutex = "free"

\* The last n elements of the sequence q, all of it if it is shorter.
LastN(q, n) == IF Len(q) <= n THEN q ELSE SubSeq(q, Len(q) - n + 1, Len(q))

\* Mutant of RingExtend: a full buffer refuses the new values.
RingExtend_keeps_oldest(buffer, values) ==
    LET all == buffer \o values
    IN  IF Len(all) <= RingCapacity THEN all ELSE SubSeq(all, 1, RingCapacity)

\* RingBuffer.append / RingBuffer.extend: the new values go to the right
\* end and push the oldest ones out.
RingExtend(buffer, values) == LastN(buffer \o values, RingCapacity)

\* The readings r, r + 1, ... of one add_new_readings call (one reading for
\* add_new_reading).
Readings(first, count) == [i \in 1 .. count |-> first + i - 1]

CurveInit ==
    \E use_ringbuffer \in BOOLEAN :
        curve = [use_ringbuffer |-> use_ringbuffer,
                 mutex |-> "free",
                 buffer_x |-> << >>,
                 buffer_y |-> << >>,
                 snapshot_x |-> <<0>>,
                 snapshot_y |-> <<0>>,
                 snapshots |-> 0,
                 pushed |-> 0,
                 since |-> << >>,
                 add |-> [pc |-> "idle", values |-> << >>],
                 upd |-> [pc |-> "idle", drawn |-> << <<0>>, <<0>> >>]]

\* add_new_reading(x, y) or add_new_readings(x_list, y_list) is called,
\* x_list and y_list of the same length; lines 113, 122.
AddCall ==
    /\ curve.add.pc = "idle"
    /\ \E count \in 1 .. 2 :
          /\ curve.pushed + count <= MaxReadings
          /\ curve' = [curve EXCEPT
                          !.pushed = @ + count,
                          !.add = [pc |-> IF curve.use_ringbuffer THEN "lock" ELSE "idle",
                                   values |-> Readings(curve.pushed + 1, count)]]
    /\ CurveFrame

\* lines 114, 123: locker = QtCore.QMutexLocker(self._mutex)
AddLock ==
    /\ curve.add.pc = "lock"
    /\ MutexFree(curve.mutex)
    /\ curve' = [curve EXCEPT !.mutex = "add", !.add.pc = "x"]
    /\ CurveFrame

\* lines 115, 124: self._buffer_x.append(x) / .extend(x_list)
AddX ==
    /\ curve.add.pc = "x"
    /\ curve' = [curve EXCEPT !.buffer_x = RingExtend(@, curve.add.values),
                              !.add.pc = "y"]
    /\ CurveFrame

\* lines 116, 125: self._buffer_y.append(y) / .extend(y_list)
AddY ==
    /\ curve.add.pc = "y"
    /\ curve' = [curve EXCEPT !.buffer_y = RingExtend(@, curve.add.values),
                              !.since = @ \o curve.add.values,
                              !.add.pc = "unlock"]
    /\ CurveFrame

\* lines 117, 126: locker.unlock()
AddUnlock ==
    /\ curve.add.pc = "unlock"
    /\ curve' = [curve EXCEPT !.mutex = "free", !.add.pc = "idle"]
    /\ CurveFrame

\* clear() is called; line 169: locker = QtCore.QMutexLocker(self._mutex)
ClearLock ==
    /\ curve.upd.pc = "idle"
    /\ MutexFree(curve.mutex)
    /\ curve' = [curve EXCEPT !.mutex = "upd", !.upd.pc = "clear_x"]
    /\ CurveFrame

\* lines 171 and 174: self._buffer_x.clear() / self._buffer_x = np.array([])
ClearX ==
    /\ curve.upd.pc = "clear_x"
    /\ curve' = [curve EXCEPT !.buffer_x = << >>, !.upd.pc = "clear_y"]
    /\ CurveFrame

\* lines 172 and 175: self._buffer_y.clear() / self._buffer_y = np.array([])
ClearY ==
    /\ curve.upd.pc = "clear_y"
    /\ curve' = [curve EXCEPT !.buffer_y = << >>,
                              !.since = << >>,
                              !.upd.pc = "clear_unlock"]
    /\ CurveFrame

\* line 177: locker.unlock(); line 179, self.update(), comes next.
ClearUnlock ==
    /\ curve.upd.pc = "clear_unlock"
    /\ curve' = [curve EXCEPT !.mutex = "free", !.upd.pc = "update"]
    /\ CurveFrame

\* update() is called, by the thread or by line 179 of clear(); line 143:
\* locker = QtCore.QMutexLocker(self._mutex)
UpdLock ==
    /\ curve.upd.pc \in {"idle", "update"}
    /\ MutexFree(curve.mutex)
    /\ curve' = [curve EXCEPT !.mutex = "upd", !.upd.pc = "x"]
    /\ CurveFrame

\* line 144: self._snapshot_x = np.copy(self._buffer_x)
UpdSnapshotX ==
    /\ curve.upd.pc = "x"
    /\ curve' = [curve EXCEPT !.snapshot_x = curve.buffer_x, !.upd.pc = "y"]
    /\ CurveFrame

\* line 145: self._snapshot_y = np.copy(self._buffer_y)
UpdSnapshotY ==
    /\ curve.upd.pc = "y"
    /\ curve' = [curve EXCEPT !.snapshot_y = curve.buffer_y,
                              !.snapshots = IF @ = 0 THEN 1 ELSE @,
                              !.upd.pc = "unlock"]
    /\ CurveFrame

\* line 148: locker.unlock()
UpdUnlock ==
    /\ curve.upd.pc = "unlock"
    /\ curve' = [curve EXCEPT !.mutex = "free", !.upd.pc = "draw"]
    /\ CurveFrame

\* lines 155-165: self.curve.setData(...) with the snapshot
UpdDraw ==
    /\ curve.upd.pc = "draw"
    /\ curve' = [curve EXCEPT
                   !.upd = [pc |-> "idle",
                            drawn |-> IF Len(curve.snapshot_x) = 0
                                      THEN << << >>, << >> >>
                                      ELSE << curve.snapshot_x, curve.snapshot_y >>]]
    /\ CurveFrame

CurveNext ==
    \/ AddCall
    \/ AddLock
    \/ AddX
    \/ AddY
    \/ AddUnlock
    \/ ClearLock
    \/ ClearX
    \/ ClearY
    \/ ClearUnlock
    \/ UpdLock
    \/ UpdSnapshotX
    \/ UpdSnapshotY
    \/ UpdUnlock
    \/ UpdDraw

InitCurve ==
    CurveInit /\ sh = Off /\ mp = Off /\ ctor = Off /\ par = Off /\ flog = Off /\ ConvOff /\ AcOff

SpecCurve == InitCurve /\ [][CurveNext]_vars

\* update() has taken a snapshot: both copies of lines 144-145 are made.
SnapshotTaken == curve.snapshots > 0 /\ curve.upd.pc # "y"

\* C20: with one thread calling add_new_reading / add_new_readings (x and y
\* lists of equal length) and another thread calling update(), under every
\* interleaving each snapshot update() takes has x and y of equal length
\* and its i-th x and i-th y come from the same reading; what is drawn is
\* such a snapshot.
C20_SnapshotsAreConsistent ==
    /\ SnapshotTaken =>
          /\ Len(curve.snapshot_x) = Len(curve.snapshot_y)
          /\ \A i \in 1 .. Len(curve.snapshot_x) :
                curve.snapshot_x[i] = curve.snapshot_y[i]
    /\ Len(curve.upd.drawn[1]) = Len(curve.upd.drawn[2])

C20_Witness ==
    /\ SnapshotTaken
    /\ curve.upd.pc = "draw"
    /\ curve.add.pc = "y"
    /\ curve.buffer_x = <<3, 4>>
    /\ curve.buffer_y = <<1, 2>>
    /\ curve.snapshot_x = <<1, 2>>
    /\ curve.snapshot_y = <<1, 2>>

\* No add_new_reading(s) or clear call is inside its locked region.
CurveQuiet == curve.mutex # "add" /\ curve.upd.pc \notin {"clear_x", "clear_y", "clear_unlock"}

\* C21: a ring-buffered curve of capacity N holds, after any sequence of
\* add_new_reading / add_new_readings / clear calls, at most N points, and
\* they are the most recent min(k, N) of the k readings added since the
\* last clear, oldest first, in x and in y.
C21_RingHoldsMostRecent ==
    (curve.use_ringbuffer /\ CurveQuiet) =>
        LET k == Len(curve.since)
            n == IF k <= RingCapacity THEN k ELSE RingCapacity
        IN  /\ Len(curve.buffer_x) = n
            /\ Len(curve.buffer_y) = n
            /\ \A i \in 1 .. n :
                  /\ curve.buffer_x[i] = curve.since[k - n + i]
                  /\ curve.buffer_y[i] = curve.since[k - n + i]

C21_Witness ==
    /\ curve.use_ringbuffer
    /\ CurveQuiet
    /\ curve.add.pc = "idle"
    /\ curve.since = <<2, 3, 4>>
    /\ curve.buffer_x = <<3, 4>>
    /\ curve.buffer_y = <<3, 4>>

(***************************************************************************)
(* FileLogger (src/src/dvg_pyqt_filelogger.py).  The logging thread calls  *)
(* update() and write(); the GUI thread calls start_recording(),           *)
(* stop_recording(), record() and close().  A step is one statement, so    *)
(* one read or write of an attribute.  A file handle is the number of the  *)
(* open() call that made it, 0 standing for None.                          *)
(***************************************************************************)
MaxRequests == 3

\* update() called without a value for filepath: the parameter is declared
\* "filepath: str == ''", an annotation and no default value.
Missing == "<missing>"

\* What update() can be called with: no filepath, "", a file name.
UpdateArgs == {Missing, "", "log.txt"}

\* lines 216-220: the file name made from the current date and time
DefaultPath == "yyMMdd_HHmmss.txt"

ResolvePath(filepath) == IF filepath = "" THEN DefaultPath ELSE filepath

\* Mutant of Catches: the except clause catches nothing.
Catches_nothing(exc) == FALSE

\* "except Exception" of _create_log and write: every exception open() and
\* file.write() raise is an Exception.
Catches(exc) == exc \in {"OSError", "ValueError", "AttributeError"}

\* self._filehandle.write(data): what it raises, "" when it writes.
FileWriteRaises(filehandle, open, io_error) ==
    IF filehandle = 0 THEN "AttributeError"
    ELSE IF filehandle \notin open THEN "ValueError"
    ELSE IF io_error THEN "OSError"
    ELSE ""

\* Mutant of AfterCreateLog: the branch of a created log is taken always.
AfterCreateLog_always_created(created) == "l230"

\* line 229: if self._create_log(): ... else: ...
AfterCreateLog(created) == IF created THEN "l230" ELSE "l237"

NoUpdate ==
    [pc |-> "idle", called |-> FALSE, filepath |-> "", found_start |-> FALSE,
     create_log |-> "none", started |-> 0, started_arg |-> "", stopped |-> 0,
     header |-> 0, data |-> 0, raised |-> FALSE, end_rec |-> FALSE]

NoWrite == [called |-> FALSE, failed |-> FALSE, returned |-> FALSE, raised |-> FALSE]

\* __init__, lines 148-165
LogInit ==
    \E has_header \in BOOLEAN, has_data \in BOOLEAN :
        flog = [has_header |-> has_header,
                has_data |-> has_data,
                filepath |-> "None",
                filehandle |-> 0,
                start |-> FALSE,
                stop |-> FALSE,
                is_recording |-> FALSE,
                open |-> {},
                opened |-> 0,
                requests |-> 0,
                last |-> "none",
                failed |-> FALSE,
                rec |-> [header |-> 0, data_called |-> FALSE],
                gui |-> [pc |-> "idle", op |-> "none"],
                upd |-> NoUpdate,
                wr |-> NoWrite]

\* update() is called without a filepath: TypeError, the body does not run.
UpdCallMissing ==
    /\ flog.upd.pc = "idle"
    /\ flog' = [flog EXCEPT !.upd = [NoUpdate EXCEPT !.called = TRUE,
                                                     !.filepath = Missing,
                                                     !.raised = TRUE,
                                                     !.end_rec = flog.is_recording]]
    /\ LogFrame

\* update(filepath) is called, line 203
UpdCall ==
    /\ flog.upd.pc = "idle"
    /\ \E filepath \in UpdateArgs \ {Missing} :
          flog' = [flog EXCEPT !.upd = [NoUpdate EXCEPT !.pc = "l215",
                                                        !.called = TRUE,
                                                        !.filepath = filepath]]
    /\ LogFrame

\* line 215: if self._start:
UpdReadStart ==
    /\ flog.upd.pc = "l215"
    /\ flog' = [flog EXCEPT !.upd.found_start = flog.start,
                            !.upd.pc = IF flog.start THEN "l216" ELSE "l239"]
    /\ LogFrame

\* lines 216-223: filepath, self._filepath, self._mode
UpdSetPath ==
    /\ flog.upd.pc = "l216"
    /\ flog' = [flog EXCEPT !.upd.filepath = ResolvePath(@),
                            !.filepath = ResolvePath(flog.upd.filepath),
                            !.upd.pc = "l226"]
    /\ LogFrame

\* line 226: self._start = False
UpdClearStart ==
    /\ flog.upd.pc = "l226"
    /\ flog' = [flog EXCEPT !.start = FALSE, !.upd.pc = "l227"]
    /\ LogFrame

\* line 227: self._stop = False
UpdClearStop ==
    /\ flog.upd.pc = "l227"
    /\ flog' = [flog EXCEPT !.stop = FALSE, !.upd.pc = "l229"]
    /\ LogFrame

\* line 229, _create_log() of lines 258-269: open() gives a new handle, which
\* is bound to self._filehandle, or raises, which _create_log catches.
UpdCreateLog ==
    /\ flog.upd.pc = "l229"
    /\ \E created \in BOOLEAN :
          IF created
          THEN flog' = [flog EXCEPT !.filehandle = flog.opened + 1,
                                    !.open = @ \cup {flog.opened + 1},
                                    !.opened = @ + 1,
                                    !.upd.create_log = "created",
                                    !.upd.pc = AfterCreateLog(TRUE)]
          ELSE IF Catches("OSError")
          THEN flog' = [flog EXCEPT !.failed = TRUE,
                                    !.upd.create_log = "failed",
                                    !.upd.pc = AfterCreateLog(FALSE)]
          ELSE flog' = [flog EXCEPT !.failed = TRUE,
                                    !.upd.create_log = "failed",
                                    !.upd.raised = TRUE,
                                    !.upd.end_rec = flog.is_recording,
                                    !.upd.pc = "idle"]
    /\ LogFrame

\* line 230: self.signal_recording_started.emit(filepath)
UpdEmitStarted ==
    /\ flog.upd.pc = "l230"
    /\ flog' = [flog EXCEPT !.upd.started = @ + 1,
                            !.upd.started_arg = flog.upd.filepath,
                            !.upd.pc = "l231"]
    /\ LogFrame

\* line 231: self._is_recording = True; a recording begins
UpdSetRecording ==
    /\ flog.upd.pc = "l231"
    /\ flog' = [flog EXCEPT !.is_recording = TRUE,
                            !.rec = [header |-> 0, data_called |-> FALSE],
                            !.upd.pc = "l232"]
    /\ LogFrame

\* lines 232-234: the header function, if there is one; self._timer.start()
UpdHeader ==
    /\ flog.upd.pc = "l232"
    /\ flog' = [flog EXCEPT
                  !.upd.header = IF flog.has_header THEN @ + 1 ELSE @,
                  !.rec.header = IF flog.has_header THEN @ + 1 ELSE @,
                  !.upd.pc = "l239"]
    /\ LogFrame

\* line 237: self._is_recording = False
UpdNotRecording ==
    /\ flog.upd.pc = "l237"
    /\ flog' = [flog EXCEPT !.is_recording = FALSE, !.upd.pc = "l239"]
    /\ LogFrame

\* line 239: if self._is_recording and self._stop:
UpdCheckStop ==
    /\ flog.upd.pc = "l239"
    /\ flog' = [flog EXCEPT
                  !.upd.pc = IF flog.is_recording /\ flog.stop THEN "l240" ELSE "l244"]
    /\ LogFrame

\* lines 240-241: self.signal_recording_stopped.emit(self._filepath)
UpdEmitStopped ==
    /\ flog.upd.pc = "l240"
    /\ flog' = [flog EXCEPT !.upd.stopped = @ + 1, !.upd.pc = "l294"]
    /\ LogFrame

\* line 242, close() of lines 294-295: if self._is_recording:
\* self._filehandle.close()
UpdCloseHandle ==
    /\ flog.upd.pc = "l294"
    /\ flog' = [flog EXCEPT
                  !.open = IF flog.is_recording THEN @ \ {flog.filehandle} ELSE @,
                  !.upd.pc = "l296"]
    /\ LogFrame

\* close(), line 296: self._start = False
UpdCloseStart ==
    /\ flog.upd.pc = "l296"
    /\ flog' = [flog EXCEPT !.start = FALSE, !.upd.pc = "l297"]
    /\ LogFrame

\* close(), line 297: self._stop = False
UpdCloseStop ==
    /\ flog.upd.pc = "l297"
    /\ flog' = [flog EXCEPT !.stop = FALSE, !.upd.pc = "l298"]
    /\ LogFrame

\* close(), line 298: self._is_recording = False
UpdCloseRecording ==
    /\ flog.upd.pc = "l298"
    /\ flog' = [flog EXCEPT !.is_recording = FALSE, !.upd.pc = "l244"]
    /\ LogFrame

\* line 244: if self._is_recording: ; update() returns when it is not
UpdCheckRecording ==
    /\ flog.upd.pc = "l244"
    /\ flog' = [flog EXCEPT !.upd.pc = IF flog.is_recording THEN "l245" ELSE "idle",
                            !.upd.end_rec = flog.is_recording]
    /\ LogFrame

\* lines 245-246: the data function, if there is one; update() returns
UpdData ==
    /\ flog.upd.pc = "l245"
    /\ flog' = [flog EXCEPT
                  !.upd.data = IF flog.has_data THEN @ + 1 ELSE @,
                  !.rec.data_called = IF flog.has_data THEN TRUE ELSE @,
                  !.upd.end_rec = flog.is_recording,
                  !.upd.pc = "idle"]
    /\ LogFrame

\* write(data), lines 271-282, called by the logging thread
LogWrite ==
    /\ flog.upd.pc = "idle"
    /\ \E io_error \in BOOLEAN :
          LET exc == FileWriteRaises(flog.filehandle, flog.open, io_error)
          IN  flog' = [flog EXCEPT
                         !.wr = [called |-> TRUE,
                                 failed |-> exc # "",
                                 returned |-> exc = "",
                                 raised |-> exc # "" /\ ~Catches(exc)]]
    /\ LogFrame

\* The runtime reclaims a file object nothing refers to any more, which
\* closes its file.
Finalize ==
    /\ \E h \in flog.open \ {flog.filehandle} :
          flog' = [flog EXCEPT !.open = @ \ {h}]
    /\ LogFrame

\* The GUI thread calls start_recording(), stop_recording() or
\* record(state), lines 182-198.
GuiCall ==
    /\ flog.gui.pc = "idle"
    /\ flog.requests < MaxRequests
    /\ \E op \in {"start_recording", "stop_recording", "record(True)", "record(False)"} :
          flog' = [flog EXCEPT
                     !.requests = @ + 1,
                     !.last = IF op \in {"start_recording", "record(True)"}
                              THEN "start" ELSE "stop",
                     !.failed = FALSE,
                     !.gui = [pc |-> "g1", op |-> op]]
    /\ LogFrame

\* lines 192 and 197: self._start = True / self._start = False
GuiWriteStart ==
    /\ flog.gui.pc = "g1"
    /\ flog' = [flog EXCEPT !.start = (flog.last = "start"), !.gui.pc = "g2"]
    /\ LogFrame

\* lines 193 and 198: self._stop = False / self._stop = True
GuiWriteStop ==
    /\ flog.gui.pc = "g2"
    /\ flog' = [flog EXCEPT !.stop = (flog.last = "stop"), !.gui.pc = "idle"]
    /\ LogFrame

\* close() is called while no update() is running, lines 291-298
GuiClose ==
    /\ flog.gui.pc = "idle"
    /\ flog.upd.pc = "idle"
    /\ flog.requests < MaxRequests
    /\ flog' = [flog EXCEPT
                  !.open = IF flog.is_recording THEN @ \ {flog.filehandle} ELSE @,
                  !.start = FALSE,
                  !.stop = FALSE,
                  !.is_recording = FALSE,
                  !.requests = @ + 1,
                  !.last = "close",
                  !.failed = FALSE,
                  !.gui = [pc |-> "idle", op |-> "close"]]
    /\ LogFrame

\* The steps of update(filepath)
LogUpdNext ==
    \/ UpdCall
    \/ UpdReadStart
    \/ UpdSetPath
    \/ UpdClearStart
    \/ UpdClearStop
    \/ UpdCreateLog
    \/ UpdEmitStarted
    \/ UpdSetRecording
    \/ UpdHeader
    \/ UpdNotRecording
    \/ UpdCheckStop
    \/ UpdEmitStopped
    \/ UpdCloseHandle
    \/ UpdCloseStart
    \/ UpdCloseStop
    \/ UpdCloseRecording
    \/ UpdCheckRecording
    \/ UpdData

\* The steps of start_recording(), stop_recording() and record()
LogGuiNext == GuiCall \/ GuiWriteStart \/ GuiWriteStop

\* The calls one after another: no call begins while another is running.
LogNext ==
    \/ flog.gui.pc = "idle" /\ (LogUpdNext \/ UpdCallMissing \/ LogWrite)
    \/ flog.upd.pc = "idle" /\ (LogGuiNext \/ GuiClose)
    \/ Finalize

InitLog ==
    LogInit /\ sh = Off /\ mp = Off /\ ctor = Off /\ par = Off /\ curve = Off /\ ConvOff /\ AcOff

SpecLog == InitLog /\ [][LogNext]_vars

\* The GUI thread calls start_recording() / stop_recording() / record()
\* while the logging thread is calling update(), no mutex between them.
LogParNext == LogUpdNext \/ UpdCallMissing \/ LogGuiNext \/ Finalize

\* The logging thread keeps calling update(filepath) and each thread runs
\* on.
SpecLogPar ==
    /\ InitLog
    /\ [][LogParNext]_vars
    /\ WF_vars(LogUpdNext)
    /\ WF_vars(GuiWriteStart \/ GuiWriteStop)

\* An update() call has returned or raised and no other has begun.
UpdateEnded == flog.upd.called /\ flog.upd.pc = "idle"

\* C22: signal_recording_stopped is emitted whenever the recording has
\* stopped: in every trace of start_recording, stop_recording, record,
\* update and close calls, each change of is_recording() from True to False
\* comes with exactly one emission of signal_recording_stopped, by the call
\* that makes the change.
C22_StoppedSignalOnEveryStop ==
    /\ [](flog.upd.stopped <= 1)
    /\ [][(flog.is_recording /\ ~flog'.is_recording) =>
             (flog.upd.pc # "idle" /\ flog'.upd.stopped = 1)]_vars

C24_FailuresAreReported ==
    /\ flog.upd.create_log = "failed" =>
          /\ ~flog.upd.raised
          /\ flog.upd.started = 0
          /\ flog.upd.header = 0
          /\ flog.upd.data = 0
          /\ flog.upd.pc \in {"l239", "l244", "idle"} => ~flog.is_recording
          /\ UpdateEnded => ~flog.upd.end_rec
    /\ flog.wr.called =>
          /\ ~flog.wr.raised
          /\ flog.wr.failed => ~flog.wr.returned

C24_Witness ==
    /\ UpdateEnded
    /\ flog.upd.found_start
    /\ flog.upd.create_log = "failed"
    /\ flog.has_header
    /\ flog.has_data
    /\ flog.wr.called
    /\ flog.wr.failed
    /\ flog.filehandle = 0

\* C27: at most one file handle the logger opened is open at any time:
\* every handle _create_log opened is closed before another is opened and
\* before is_recording() becomes False, also when a start request is
\* processed while a recording is going on.
C27_AtMostOneOpenHandle ==
    /\ [](Cardinality(flog.open) <= 1)
    /\ [][(flog.is_recording /\ ~flog'.is_recording) => flog'.open = {}]_vars

\* C28: with a header function and a data function, the header function is
\* called exactly once in each recording and before the first call of the
\* data function; the data function is called exactly once in every
\* update() that ends with is_recording() True, the one that starts the
\* recording included, and not in an update() that ends with it False (the
\* one that processes the stop request, and those while not recording).
C28_HeaderOnceDataEveryUpdate ==
    (flog.has_header /\ flog.has_data) =>
        /\ flog.rec.header <= 1
        /\ flog.rec.data_called => flog.rec.header = 1
        /\ (flog.is_recording /\ flog.upd.pc # "l232") => flog.rec.header = 1
        /\ UpdateEnded => flog.upd.data = (IF flog.upd.end_rec THEN 1 ELSE 0)

\* C28 for the update() calls that are given a filepath.
C28_WhenFilepathGiven ==
    (flog.has_header /\ flog.has_data) =>
        /\ flog.rec.header <= 1
        /\ flog.rec.data_called => flog.rec.header = 1
        /\ (flog.is_recording /\ flog.upd.pc # "l232") => flog.rec.header = 1
        /\ (UpdateEnded /\ flog.upd.filepath # Missing) =>
              flog.upd.data = (IF flog.upd.end_rec THEN 1 ELSE 0)

\* C26: with the GUI thread calling start_recording() / stop_recording()
\* and the logging thread calling update() again and again, interleaved at
\* single reads and writes of attributes, no request is lost: when the last
\* request is stop, is_recording() is False from some time on; when the
\* last request is start and the file can be opened, it is True from some
\* time on.
C26_NoRequestLost ==
    \A k \in 1 .. MaxRequests :
        /\ <>[](flog.requests = k /\ flog.last = "stop") => <>[](~flog.is_recording)
        /\ <>[](flog.requests = k /\ flog.last = "start" /\ ~flog.failed)
              => <>[](flog.is_recording)

=============================================================================
